---- MODULE Spec2Model ----
(***************************************************************************)
(* Model of codesubmit/executor.py: execute_files, its batch branch        *)
(* (subprocess.run), its interactive branch (Popen + three relay threads), *)
(* stream_reader, input_thread_func and get_runner_command.                *)
(*                                                                         *)
(* Text is a sequence of line tokens; a Python list of strings is a        *)
(* sequence of such sequences and "".join is their concatenation.          *)
(* stdin text is a sequence of code points, bytes a sequence of 0..255.    *)
(***************************************************************************)
EXTENDS Integers, Sequences, FiniteSets, TLC

\* ---------------------------------------------------------------- bounds
MaxFiles == 2
MaxLines == 1
MaxTermLines == 1

FileIds == 1..MaxFiles
Languages == {"Python", "Java", "C"}
ExitCodes == {0, 1}

\* Popen.returncode of a child ended by SIGKILL (proc.kill / subprocess.run)
KillCode == 0 - 9
\* the sentinel of lines 181 and 193
FailCode == 0 - 1

\* Python's None for an int-valued attribute, and "no result"
None == <<>>
Some(v) == <<v>>
NoResult == [none |-> TRUE]

\* ------------------------------------------------------- pure functions
RECURSIVE Join(_)
\* "".join(list of str)
Join(l) == IF l = <<>> THEN <<>> ELSE Head(l) \o Join(Tail(l))

Utf8Char(c) == IF c < 128 THEN <<c>> ELSE <<192 + (c \div 64), 128 + (c % 64)>>

RECURSIVE Utf8Encode(_)
\* str.encode('utf-8') for code points below 2048
Utf8Encode(s) == IF s = <<>> THEN <<>> ELSE Utf8Char(Head(s)) \o Utf8Encode(Tail(s))

\* bytes.decode('utf-8', errors='replace') of captured output: total, never
\* raises; output is kept as the line tokens the child wrote
Decode(b) == [n \in 1..Len(b) |-> [b[n] EXCEPT !.enc = "str"]]

get_runner_command(file_path, language) ==
  IF language = "Python" THEN <<"python", "-u", file_path>>
  ELSE IF language = "Java" THEN <<"java", file_path>>
  ELSE <<>>

\* stdin_content of line 164
StdinContent(cfg) ==
  IF cfg.stdin_input # <<>> THEN Utf8Encode(cfg.stdin_input) ELSE <<>>

\* ---------------------------------------------------------------- inputs
NoInputFile == [set |-> FALSE, exists |-> FALSE, bytes |-> <<>>]
MissingInputFile == [set |-> TRUE, exists |-> FALSE, bytes |-> <<>>]
ExistingInputFile == [set |-> TRUE, exists |-> TRUE, bytes |-> <<89, 10>>]

StdinTexts == {<<>>, <<88, 233>>}

BatchConfigs ==
  [execution_enabled : BOOLEAN, interactive : {FALSE},
   stdin_input : StdinTexts,
   input_file : {NoInputFile, MissingInputFile, ExistingInputFile}]

\* stdin_input and input_file are not read by the interactive branch
InteractiveConfigs ==
  [execution_enabled : BOOLEAN, interactive : {TRUE},
   stdin_input : {<<>>}, input_file : {NoInputFile}]

FileListsOver(langs) ==
  UNION {{[k \in 1..n |-> [path |-> k, language |-> l[k]]] :
            l \in [1..n -> langs]} : n \in 0..MaxFiles}

\* the two runner languages differ only in the command line, which the
\* interactive branch hands to Popen unread: one of them stands for both there
Inputs ==
  (FileListsOver(Languages) \X BatchConfigs)
  \cup (FileListsOver({"Python", "C"}) \X InteractiveConfigs)

\* seen[n]: how many stdin lines had reached the child when it wrote its
\* n-th stdout line
NoChild == [st |-> "none", code |-> 0, sig |-> FALSE, nOut |-> 0, nErr |-> 0,
            stdin |-> <<>>, seen |-> <<>>]

VARIABLES
  files, config,       \* arguments of execute_files
  pc, i, results,      \* engine position, loop index, results list
  timed_out, exit_code, exc,   \* locals of the loop body
  capOut, capErr,      \* list objects captured_stdout / captured_stderr name
  procRef,             \* Popen object the local `proc` names (0: unbound)
  child,               \* the OS process launched for each file
  returncode,          \* Popen.returncode of each file's Popen object
  pipeOut, pipeErr,    \* unread content of each child's stdout / stderr pipe
  bufOut, bufErr,      \* the list objects created at lines 87-88 per file
  tin, tout, terr,     \* position of each file's relay threads
  inLine,              \* the line an Input Relay holds between read and append
  termNext, termEOF,   \* controlling terminal: next line, end-of-input seen
  launches,            \* number of Popen / subprocess.run calls made so far
  outcome              \* how the engine's wait for each file's child ended

vars == <<files, config, pc, i, results, timed_out, exit_code, exc,
          capOut, capErr, procRef, child, returncode, pipeOut, pipeErr,
          bufOut, bufErr, tin, tout, terr, inLine, termNext, termEOF,
          launches, outcome>>

engineLocals == <<timed_out, exit_code, exc, capOut, capErr, procRef>>
procVars == <<child, returncode, pipeOut, pipeErr>>
bufVars == <<bufOut, bufErr>>
threadVars == <<tin, tout, terr, inLine>>
termVars == <<termNext, termEOF>>

Init ==
  /\ \E inp \in Inputs : files = inp[1] /\ config = inp[2]
  /\ pc = "start" /\ i = 1 /\ results = <<>>
  /\ timed_out = FALSE /\ exit_code = None /\ exc = <<>>
  /\ capOut = 0 /\ capErr = 0 /\ procRef = 0
  /\ child = [k \in FileIds |-> NoChild]
  /\ returncode = [k \in FileIds |-> None]
  /\ pipeOut = [k \in FileIds |-> <<>>]
  /\ pipeErr = [k \in FileIds |-> <<>>]
  /\ bufOut = [k \in FileIds |-> <<>>]
  /\ bufErr = [k \in FileIds |-> <<>>]
  /\ tin = [k \in FileIds |-> "unstarted"]
  /\ tout = [k \in FileIds |-> "unstarted"]
  /\ terr = [k \in FileIds |-> "unstarted"]
  /\ inLine = [k \in FileIds |-> <<>>]
  /\ termNext = 1 /\ termEOF = FALSE
  /\ launches = 0
  /\ outcome = [k \in FileIds |-> "none"]

\* ---------------------------------------------------------------- engine
\* an engine that does not test execution_enabled
Start_IgnoresFlag ==
  /\ pc = "start"
  /\ pc' = "loop"
  /\ UNCHANGED <<files, config, i, results, engineLocals, procVars, bufVars,
                 threadVars, termVars, launches, outcome>>

\* lines 62-67: the execution_enabled short-circuit
Start ==
  /\ pc = "start"
  /\ IF ~config.execution_enabled
       THEN /\ results' = [k \in 1..Len(files) |-> <<files[k], NoResult>>]
            /\ pc' = "done"
       ELSE /\ results' = results
            /\ pc' = "loop"
  /\ UNCHANGED <<files, config, i, engineLocals, procVars, bufVars, threadVars, termVars, launches, outcome>>

\* line 69 with the list exhausted, line 202
LoopEnd ==
  /\ pc = "loop" /\ i > Len(files)
  /\ pc' = "done"
  /\ UNCHANGED <<files, config, i, results, engineLocals, procVars, bufVars, threadVars, termVars, launches, outcome>>

\* a skip that continues without recording the (file, none) entry
LoopSkip_NoEntry ==
  /\ pc = "loop" /\ i <= Len(files)
  /\ get_runner_command(files[i].path, files[i].language) = <<>>
  /\ i' = i + 1
  /\ UNCHANGED <<files, config, pc, results, engineLocals, procVars, bufVars,
                 threadVars, termVars, launches, outcome>>

\* lines 69-75: a file without a runner
LoopSkip ==
  /\ pc = "loop" /\ i <= Len(files)
  /\ get_runner_command(files[i].path, files[i].language) = <<>>
  /\ results' = Append(results, <<files[i], NoResult>>)
  /\ i' = i + 1
  /\ UNCHANGED <<files, config, pc, timed_out, exit_code, exc, capOut, capErr, procRef, procVars, bufVars, threadVars, termVars, launches, outcome>>

\* a loop body without the `if not cmd` test of line 72
LoopBody_NoCmdTest ==
  /\ pc = "loop" /\ i <= Len(files)
  /\ timed_out' = FALSE
  /\ capOut' = i /\ capErr' = i
  /\ bufOut' = [bufOut EXCEPT ![i] = <<>>]
  /\ bufErr' = [bufErr EXCEPT ![i] = <<>>]
  /\ exit_code' = Some(0)
  /\ pc' = IF config.interactive THEN "popen" ELSE "run"
  /\ UNCHANGED <<files, config, i, results, exc, procRef, procVars,
                 threadVars, termVars, launches, outcome>>

\* lines 69-89: a file with a runner; fresh per-file locals
LoopBody ==
  /\ pc = "loop" /\ i <= Len(files)
  /\ get_runner_command(files[i].path, files[i].language) # <<>>
  /\ timed_out' = FALSE
  /\ capOut' = i /\ capErr' = i
  /\ bufOut' = [bufOut EXCEPT ![i] = <<>>]
  /\ bufErr' = [bufErr EXCEPT ![i] = <<>>]
  /\ exit_code' = Some(0)
  /\ pc' = IF config.interactive THEN "popen" ELSE "run"
  /\ UNCHANGED <<files, config, i, results, exc, procRef, procVars, threadVars, termVars, launches, outcome>>

\* a line token: what a child wrote (src "out"/"err", k the file, n the
\* ordinal), a terminal line (src "in") or an exception message
Line(enc, src, k, n) == [enc |-> enc, src |-> src, k |-> k, n |-> n]
LaunchError == <<Line("str", "launch_error", 0, 0)>>
TimeoutExpired == <<Line("str", "timeout_expired", 0, 0)>>

\* Popen.poll() / the waitpid inside wait(): collect the exit status of a
\* terminated child into returncode
ReapedChild(p) ==
  IF returncode[p] = None /\ child[p].st = "zombie"
    THEN [child EXCEPT ![p].st = "reaped"] ELSE child
ReapedCode(p) ==
  IF returncode[p] = None /\ child[p].st = "zombie"
    THEN [returncode EXCEPT ![p] = Some(child[p].code)] ELSE returncode

\* ------------------------------------------------------ batch branch
\* lines 164-171: subprocess.run cannot start the child
BatchLaunchFail ==
  /\ pc = "run"
  /\ exc' = LaunchError
  /\ launches' = launches + 1
  /\ outcome' = [outcome EXCEPT ![i] = "launch_failed"]
  /\ pc' = "except"
  /\ UNCHANGED <<files, config, i, results, timed_out, exit_code, capOut, capErr, procRef, procVars, bufVars, threadVars, termVars>>

\* lines 164-171: subprocess.run starts the child and feeds it stdin_content
BatchLaunch ==
  /\ pc = "run"
  /\ child' = [child EXCEPT ![i] = [NoChild EXCEPT !.st = "running",
                                      !.stdin = StdinContent(config)]]
  /\ launches' = launches + 1
  /\ pc' = "run_wait"
  /\ UNCHANGED <<files, config, i, results, engineLocals, returncode, pipeOut, pipeErr, bufVars, threadVars, termVars, outcome>>

\* lines 165-174: subprocess.run returns the CompletedProcess
BatchReturn ==
  /\ pc = "run_wait" /\ child[i].st = "zombie"
  /\ child' = [child EXCEPT ![i].st = "reaped"]
  /\ returncode' = [returncode EXCEPT ![i] = Some(child[i].code)]
  /\ bufOut' = [bufOut EXCEPT ![i] = <<Decode(pipeOut[i])>>]
  /\ bufErr' = [bufErr EXCEPT ![i] = <<Decode(pipeErr[i])>>]
  /\ exit_code' = Some(child[i].code)
  /\ outcome' = [outcome EXCEPT ![i] = "exited"]
  /\ pc' = "assemble"
  /\ UNCHANGED <<files, config, i, results, timed_out, exc, capOut, capErr, procRef, pipeOut, pipeErr, threadVars, termVars, launches>>

\* lines 165-171: subprocess.run kills and reaps the child, then raises
\* TimeoutExpired, which leaves the try block at line 188
BatchTimeout ==
  /\ pc = "run_wait" /\ child[i].st = "running"
  /\ child' = [child EXCEPT ![i].st = "reaped", ![i].sig = TRUE,
                            ![i].code = KillCode]
  /\ exc' = TimeoutExpired
  /\ outcome' = [outcome EXCEPT ![i] = "timeout"]
  /\ pc' = "except"
  /\ UNCHANGED <<files, config, i, results, timed_out, exit_code, capOut, capErr, procRef, returncode, pipeOut, pipeErr, bufVars, threadVars, termVars, launches>>

\* ------------------------------------------------ interactive branch
\* lines 105-113: Popen raises
PopenFail ==
  /\ pc = "popen"
  /\ exc' = LaunchError
  /\ launches' = launches + 1
  /\ outcome' = [outcome EXCEPT ![i] = "launch_failed"]
  /\ pc' = "except"
  /\ UNCHANGED <<files, config, i, results, timed_out, exit_code, capOut, capErr, procRef, procVars, bufVars, threadVars, termVars>>

\* lines 105-113: Popen starts the child; `proc` now names its handle
Popen ==
  /\ pc = "popen"
  /\ child' = [child EXCEPT ![i] = [NoChild EXCEPT !.st = "running"]]
  /\ returncode' = [returncode EXCEPT ![i] = None]
  /\ procRef' = i
  /\ launches' = launches + 1
  /\ pc' = "start_threads"
  /\ UNCHANGED <<files, config, i, results, timed_out, exit_code, exc, capOut, capErr, pipeOut, pipeErr, bufVars, threadVars, termVars, outcome>>

\* lines 140-148: t_in, t_out and t_err are started; the readers get
\* proc.stdout, proc.stderr and the two lists by value
StartThreads ==
  /\ pc = "start_threads"
  /\ tin' = [tin EXCEPT ![i] = "poll"]
  /\ tout' = [tout EXCEPT ![i] = "read"]
  /\ terr' = [terr EXCEPT ![i] = "read"]
  /\ pc' = "wait"
  /\ UNCHANGED <<files, config, i, results, engineLocals, procVars, bufVars, inLine, termVars, launches, outcome>>

\* line 151: proc.wait returns, the child has terminated
WaitReturn ==
  /\ pc = "wait"
  /\ child[procRef].st = "zombie" \/ returncode[procRef] # None
  /\ child' = ReapedChild(procRef)
  /\ returncode' = ReapedCode(procRef)
  /\ outcome' = [outcome EXCEPT ![i] = "exited"]
  /\ pc' = "join"
  /\ UNCHANGED <<files, config, i, results, engineLocals, pipeOut, pipeErr, bufVars, threadVars, termVars, launches>>

\* lines 151-152: proc.wait raises TimeoutExpired, the child still runs
WaitTimeout ==
  /\ pc = "wait"
  /\ child[procRef].st = "running" /\ returncode[procRef] = None
  /\ outcome' = [outcome EXCEPT ![i] = "timeout"]
  /\ pc' = "kill"
  /\ UNCHANGED <<files, config, i, results, engineLocals, procVars, bufVars, threadVars, termVars, launches>>

\* lines 153-154: proc.kill() polls, then signals a child not yet reaped
Kill ==
  /\ pc = "kill"
  /\ returncode' = ReapedCode(procRef)
  /\ child' = IF ReapedCode(procRef)[procRef] = None
                THEN [child EXCEPT ![procRef].sig = TRUE]
                ELSE ReapedChild(procRef)
  /\ timed_out' = TRUE
  /\ pc' = "join"
  /\ UNCHANGED <<files, config, i, results, exit_code, exc, capOut, capErr, procRef, pipeOut, pipeErr, bufVars, threadVars, termVars, launches, outcome>>

\* line 54: once the child has terminated and the pipe is drained, readline
\* returns '' and stream_reader returns. The return changes nothing that
\* another thread reads (the joins are bounded), so it is a derived condition
\* of the relay's state and not a step of its own.
OutFinished(k) ==
  \/ tout[k] = "done"
  \/ tout[k] = "read" /\ pipeOut[k] = <<>> /\ child[k].st \in {"zombie", "reaped"}

ErrFinished(k) ==
  \/ terr[k] = "done"
  \/ terr[k] = "read" /\ pipeErr[k] = <<>> /\ child[k].st \in {"zombie", "reaped"}

\* joins without the timeout argument: the engine waits for both readers
JoinStreams_NoGrace ==
  /\ pc = "join"
  /\ OutFinished(i) /\ ErrFinished(i)
  /\ pc' = "returncode"
  /\ UNCHANGED <<files, config, i, results, engineLocals, procVars, bufVars,
                 threadVars, termVars, launches, outcome>>

\* lines 156-157: each join returns when its thread has ended or after the
\* one-second grace, whichever is first; neither changes any state
JoinStreams ==
  /\ pc = "join"
  /\ pc' = "returncode"
  /\ UNCHANGED <<files, config, i, results, engineLocals, procVars, bufVars, threadVars, termVars, launches, outcome>>

\* an engine that never copies proc.returncode into exit_code
ReadReturncode_Skipped ==
  /\ pc = "returncode"
  /\ pc' = "assemble"
  /\ UNCHANGED <<files, config, i, results, engineLocals, procVars, bufVars,
                 threadVars, termVars, launches, outcome>>

\* line 160
ReadReturncode ==
  /\ pc = "returncode"
  /\ exit_code' = returncode[procRef]
  /\ pc' = "assemble"
  /\ UNCHANGED <<files, config, i, results, timed_out, exc, capOut, capErr, procRef, procVars, bufVars, threadVars, termVars, launches, outcome>>

\* -------------------------------------------------- result assembly
\* an engine that folds a stream relay's I/O error into the result
Assemble_FoldsRelayError ==
  /\ pc = "assemble"
  /\ results' = Append(results, <<files[i],
        IF tout[i] = "done" \/ terr[i] = "done"
          THEN [stdout |-> Join(bufOut[capOut]),
                stderr |-> <<Line("str", "relay_error", 0, 0)>>,
                exit_code |-> FailCode,
                timed_out |-> timed_out]
          ELSE [stdout |-> Join(bufOut[capOut]),
                stderr |-> Join(bufErr[capErr]),
                exit_code |-> IF exit_code # None THEN exit_code[1]
                                                  ELSE FailCode,
                timed_out |-> timed_out]>>)
  /\ i' = i + 1
  /\ pc' = "loop"
  /\ UNCHANGED <<files, config, engineLocals, procVars, bufVars, threadVars,
                 termVars, launches, outcome>>

\* lines 176-186 and 200 (duration, command and context are not modelled)
Assemble ==
  /\ pc = "assemble"
  /\ results' = Append(results, <<files[i],
        [stdout |-> Join(bufOut[capOut]),
         stderr |-> Join(bufErr[capErr]),
         exit_code |-> IF exit_code # None THEN exit_code[1] ELSE FailCode,
         timed_out |-> timed_out]>>)
  /\ i' = i + 1
  /\ pc' = "loop"
  /\ UNCHANGED <<files, config, engineLocals, procVars, bufVars, threadVars, termVars, launches, outcome>>

\* lines 188-200; leaving the handler unbinds e
Except ==
  /\ pc = "except"
  /\ results' = Append(results, <<files[i],
        [stdout |-> Join(bufOut[capOut]),
         stderr |-> exc,
         exit_code |-> FailCode,
         timed_out |-> FALSE]>>)
  /\ exc' = <<>>
  /\ i' = i + 1
  /\ pc' = "loop"
  /\ UNCHANGED <<files, config, timed_out, exit_code, capOut, capErr, procRef, procVars, bufVars, threadVars, termVars, launches, outcome>>

\* -------------------------------------------------------- the child
RECURSIVE SumLines(_)
SumLines(S) ==
  IF S = {} THEN 0
  ELSE LET k == CHOOSE x \in S : TRUE
       IN child[k].nOut + child[k].nErr + SumLines(S \ {k})

\* lines written so far by all children of the batch
LinesWritten == SumLines(FileIds)

\* the children of a batch write at most MaxLines lines together; a batch
\* of a single file may write one line more, so that two lines of one stream
\* occur
LineBudget == IF Len(files) > 1 THEN MaxLines ELSE MaxLines + 1

ChildWriteOut(k) ==
  /\ child[k].st = "running" /\ ~child[k].sig
  /\ LinesWritten < LineBudget
  /\ pipeOut' = [pipeOut EXCEPT
                   ![k] = Append(@, Line("bytes", "out", k, child[k].nOut + 1))]
  /\ child' = [child EXCEPT ![k].nOut = @ + 1,
                            ![k].seen = Append(@, Len(child[k].stdin))]
  /\ UNCHANGED <<files, config, pc, i, results, engineLocals, returncode, pipeErr, bufVars, threadVars, termVars, launches, outcome>>

ChildWriteErr(k) ==
  /\ child[k].st = "running" /\ ~child[k].sig
  /\ LinesWritten < LineBudget
  /\ pipeErr' = [pipeErr EXCEPT
                   ![k] = Append(@, Line("bytes", "err", k, child[k].nErr + 1))]
  /\ child' = [child EXCEPT ![k].nErr = @ + 1]
  /\ UNCHANGED <<files, config, pc, i, results, engineLocals, returncode, pipeOut, bufVars, threadVars, termVars, launches, outcome>>

\* the child ends by itself with exit status c
ChildExit(k, c) ==
  /\ child[k].st = "running" /\ ~child[k].sig
  /\ child' = [child EXCEPT ![k].st = "zombie", ![k].code = c]
  /\ UNCHANGED <<files, config, pc, i, results, engineLocals, returncode, pipeOut, pipeErr, bufVars, threadVars, termVars, launches, outcome>>

\* the kernel ends a child that was sent SIGKILL
ChildDie(k) ==
  /\ child[k].st = "running" /\ child[k].sig
  /\ child' = [child EXCEPT ![k].st = "zombie", ![k].code = KillCode]
  /\ UNCHANGED <<files, config, pc, i, results, engineLocals, returncode, pipeOut, pipeErr, bufVars, threadVars, termVars, launches, outcome>>

\* ------------------------------------------- stream_reader (45-59)
\* a result that keeps the list object itself instead of the joined
\* string: a later append by the reader shows in the stored result
OutLine_ResultSharesList(k, ok) ==
  /\ tout[k] = "read" /\ pipeOut[k] # <<>>
  /\ bufOut' = [bufOut EXCEPT ![k] = Append(@, Decode(<<Head(pipeOut[k])>>))]
  /\ pipeOut' = [pipeOut EXCEPT ![k] = Tail(@)]
  /\ tout' = [tout EXCEPT ![k] = IF ok THEN "read" ELSE "done"]
  /\ results' = IF k <= Len(results)
                  THEN [results EXCEPT ![k][2].stdout =
                          @ \o Decode(<<Head(pipeOut[k])>>)]
                  ELSE results
  /\ UNCHANGED <<files, config, pc, i, engineLocals, child,
                 returncode, pipeErr, bufErr, tin, terr, inLine, termVars,
                 launches, outcome>>

\* a reader that puts each new line at the front of the list
OutLine_Prepends(k, ok) ==
  /\ tout[k] = "read" /\ pipeOut[k] # <<>>
  /\ bufOut' = [bufOut EXCEPT ![k] = <<Decode(<<Head(pipeOut[k])>>)>> \o @]
  /\ pipeOut' = [pipeOut EXCEPT ![k] = Tail(@)]
  /\ tout' = [tout EXCEPT ![k] = IF ok THEN "read" ELSE "done"]
  /\ UNCHANGED <<files, config, pc, i, results, engineLocals, child,
                 returncode, pipeErr, bufErr, tin, terr, inLine, termVars,
                 launches, outcome>>

\* lines 54-57 for t_out of file k: one line read and appended; ok tells
\* whether the mirror write and flush succeed (else line 58 ends the relay)
OutLine(k, ok) ==
  /\ tout[k] = "read" /\ pipeOut[k] # <<>>
  /\ bufOut' = [bufOut EXCEPT ![k] = Append(@, Decode(<<Head(pipeOut[k])>>))]
  /\ pipeOut' = [pipeOut EXCEPT ![k] = Tail(@)]
  /\ tout' = [tout EXCEPT ![k] = IF ok THEN "read" ELSE "done"]
  /\ UNCHANGED <<files, config, pc, i, results, engineLocals, child, returncode, pipeErr, bufErr, tin, terr, inLine, termVars, launches, outcome>>

ErrLine(k, ok) ==
  /\ terr[k] = "read" /\ pipeErr[k] # <<>>
  /\ bufErr' = [bufErr EXCEPT ![k] = Append(@, Decode(<<Head(pipeErr[k])>>))]
  /\ pipeErr' = [pipeErr EXCEPT ![k] = Tail(@)]
  /\ terr' = [terr EXCEPT ![k] = IF ok THEN "read" ELSE "done"]
  /\ UNCHANGED <<files, config, pc, i, results, engineLocals, child, returncode, pipeOut, bufOut, tin, tout, inLine, termVars, launches, outcome>>

\* --------------------------------------- input_thread_func (122-138)
\* `proc` and `captured_stdout` are free variables of the closure: each use
\* reads what execute_files' locals name at that moment
\* line 124
InPoll(k) ==
  /\ tin[k] = "poll"
  /\ child' = ReapedChild(procRef)
  /\ returncode' = ReapedCode(procRef)
  /\ tin' = [tin EXCEPT ![k] = IF ReapedCode(procRef)[procRef] = None
                                 THEN "read" ELSE "done"]
  /\ UNCHANGED <<files, config, pc, i, results, engineLocals, pipeOut, pipeErr, bufVars, tout, terr, inLine, termVars, launches, outcome>>

\* line 128: the terminal delivers a line
InReadLine(k) ==
  /\ tin[k] = "read" /\ ~termEOF /\ termNext <= MaxTermLines
  /\ inLine' = [inLine EXCEPT ![k] = <<Line("str", "in", 0, termNext)>>]
  /\ termNext' = termNext + 1
  /\ tin' = [tin EXCEPT ![k] = "write"]
  /\ UNCHANGED <<files, config, pc, i, results, engineLocals, procVars, bufVars, tout, terr, termEOF, launches, outcome>>

\* lines 128-129: the terminal is at end of input
InReadEOF(k) ==
  /\ tin[k] = "read"
  /\ termEOF' = TRUE
  /\ tin' = [tin EXCEPT ![k] = "done"]
  /\ UNCHANGED <<files, config, pc, i, results, engineLocals, procVars, bufVars, tout, terr, inLine, termNext, launches, outcome>>

\* a relay that records the line whether or not the write succeeded
InWrite_IgnoresFailure(k) ==
  /\ tin[k] = "write"
  /\ child' = IF child[procRef].st = "running"
                THEN [child EXCEPT ![procRef].stdin = @ \o inLine[k]]
                ELSE child
  /\ tin' = [tin EXCEPT ![k] = "append"]
  /\ UNCHANGED <<files, config, pc, i, results, engineLocals, returncode,
                 pipeOut, pipeErr, bufVars, tout, terr, inLine, termVars,
                 launches, outcome>>

\* lines 132-133, 135-136: write and flush to proc.stdin; a child that has
\* terminated gives BrokenPipeError
InWrite(k) ==
  /\ tin[k] = "write"
  /\ IF child[procRef].st = "running"
       THEN /\ child' = [child EXCEPT ![procRef].stdin = @ \o inLine[k]]
            /\ tin' = [tin EXCEPT ![k] = "append"]
       ELSE /\ child' = child
            /\ tin' = [tin EXCEPT ![k] = "done"]
  /\ UNCHANGED <<files, config, pc, i, results, engineLocals, returncode, pipeOut, pipeErr, bufVars, tout, terr, inLine, termVars, launches, outcome>>

\* line 134
InAppend(k) ==
  /\ tin[k] = "append"
  /\ bufOut' = [bufOut EXCEPT ![capOut] = Append(@, inLine[k])]
  /\ tin' = [tin EXCEPT ![k] = "poll"]
  /\ UNCHANGED <<files, config, pc, i, results, engineLocals, procVars, bufErr, tout, terr, inLine, termVars, launches, outcome>>

Engine ==
  \/ Start \/ LoopEnd \/ LoopSkip \/ LoopBody
  \/ BatchLaunchFail \/ BatchLaunch \/ BatchReturn \/ BatchTimeout
  \/ PopenFail \/ Popen \/ StartThreads
  \/ WaitReturn \/ WaitTimeout \/ Kill \/ JoinStreams
  \/ ReadReturncode \/ Assemble \/ Except

Child ==
  \E k \in FileIds :
    \/ ChildWriteOut(k) \/ ChildWriteErr(k)
    \/ \E c \in ExitCodes : ChildExit(k, c)
    \/ ChildDie(k)

Relays ==
  \E k \in FileIds :
    \/ \E ok \in BOOLEAN : OutLine(k, ok) \/ ErrLine(k, ok)
    \/ InPoll(k) \/ InReadLine(k) \/ InReadEOF(k) \/ InWrite(k)
    \/ InAppend(k)

Next == Engine \/ Child \/ Relays

Spec == Init /\ [][Next]_vars

\* The main thread is always scheduled and none of its steps blocks for
\* ever: wait and subprocess.run are bounded by config.timeout, the joins by
\* their grace period. Nothing is assumed of the child, the relays or the
\* terminal.
LiveSpec == Init /\ [][Next]_vars /\ WF_vars(Engine)

\* ------------------------------------------------------------ properties
Range(q) == {q[n] : n \in 1..Len(q)}
HasRunner(f) == get_runner_command(f.path, f.language) # <<>>
IsExecutionResult(r) ==
  /\ DOMAIN r = {"stdout", "stderr", "exit_code", "timed_out"}
  /\ r.exit_code \in Int /\ r.timed_out \in BOOLEAN
\* the lines file k's child has written to its stdout / stderr, as text
WrittenOut(k) == {Line("str", "out", k, n) : n \in 1..child[k].nOut}
WrittenErr(k) == {Line("str", "err", k, n) : n \in 1..child[k].nErr}

\* C1: with execution enabled, the results list always holds exactly one
\* entry for each file the loop has passed, the j-th entry pairs the j-th
\* input file with no result or with one ExecutionResult, and at return there
\* is one entry per input file, whatever launch failures and timeouts occurred.
C1_OneEntryPerFile ==
  config.execution_enabled =>
    /\ Len(results) = i - 1
    /\ i <= Len(files) + 1
    /\ \A j \in 1..Len(results) :
         /\ results[j][1] = files[j]
         /\ results[j][2] = NoResult \/ IsExecutionResult(results[j][2])
    /\ pc = "done" => Len(results) = Len(files)

C1_Witness ==
  /\ pc = "done" /\ config.execution_enabled /\ Len(files) = 2
  /\ outcome[1] = "timeout" /\ outcome[2] = "launch_failed"
  /\ Len(results) = 2

\* C2 (as claimed): in batch mode a run that exceeds the timeout has its
\* child terminated and its result has timed_out = true and exit_code = -1.
C2_BatchTimeoutFlagged ==
  \A j \in 1..Len(results) :
    (~config.interactive /\ outcome[j] = "timeout") =>
      /\ child[j].st \in {"zombie", "reaped"}
      /\ results[j][2].timed_out = TRUE
      /\ results[j][2].exit_code = FailCode

\* C3 (as claimed): in interactive mode a run whose wait expired has
\* timed_out = true and exit_code = -1 in its result, under every
\* interleaving with the Input Relay's poll and the child's own exit.
C3_InteractiveTimeoutResult ==
  \A j \in 1..Len(results) :
    (config.interactive /\ outcome[j] = "timeout") =>
      /\ results[j][2].timed_out = TRUE
      /\ results[j][2].exit_code = FailCode

\* C4 (as claimed): in batch mode the result of a run ended by the timeout
\* holds in stdout and stderr the lines the child wrote before it was killed.
C4_BatchTimeoutKeepsOutput ==
  \A j \in 1..Len(results) :
    (~config.interactive /\ outcome[j] = "timeout") =>
      /\ WrittenOut(j) \subseteq Range(results[j][2].stdout)
      /\ WrittenErr(j) \subseteq Range(results[j][2].stderr)

\* C5: with execution disabled no child is ever launched and no relay is
\* ever started, and execute_files returns (file, none) for every input file
\* in input order.
C5_DisabledShortCircuit ==
  ~config.execution_enabled =>
    /\ launches = 0
    /\ \A k \in FileIds :
         /\ child[k].st = "none"
         /\ tin[k] = "unstarted" /\ tout[k] = "unstarted"
         /\ terr[k] = "unstarted"
    /\ pc = "done" =>
         /\ Len(results) = Len(files)
         /\ \A j \in 1..Len(files) : results[j] = <<files[j], NoResult>>

C5_Witness ==
  pc = "done" /\ ~config.execution_enabled /\ Len(files) = 2 /\ Len(results) = 2

\* C6: with execution enabled, a file whose language has no runner gets the
\* entry (file, none) and no child or relay is ever started for it, the loop
\* going on to the next file; a file whose language has a runner always gets
\* an ExecutionResult.
C6_RunnerDecidesResult ==
  config.execution_enabled =>
    /\ \A k \in 1..Len(files) :
         ~HasRunner(files[k]) =>
           /\ child[k].st = "none" /\ outcome[k] = "none"
           /\ tin[k] = "unstarted" /\ tout[k] = "unstarted"
           /\ terr[k] = "unstarted"
    /\ \A j \in 1..Len(results) :
         /\ ~HasRunner(files[j]) => results[j][2] = NoResult
         /\ HasRunner(files[j]) => IsExecutionResult(results[j][2])
    /\ launches <= Cardinality({k \in 1..Len(files) : k <= i /\ HasRunner(files[k])})

C6_Witness ==
  /\ pc = "done" /\ config.execution_enabled /\ Len(files) = 2
  /\ ~HasRunner(files[1]) /\ HasRunner(files[2])
  /\ results[1][2] = NoResult /\ IsExecutionResult(results[2][2])
  /\ child[2].st # "none"

\* C7 (as claimed): in batch mode the bytes fed to the child's stdin are the
\* input file's contents when an existing input file is configured, and the
\* encoded stdin text only otherwise.
C7_InputFilePrecedence ==
  \A k \in FileIds :
    (~config.interactive /\ child[k].st # "none") =>
      child[k].stdin = IF config.input_file.set /\ config.input_file.exists
                         THEN config.input_file.bytes
                         ELSE StdinContent(config)

\* C8 (as claimed): a file whose launch failed has a result with
\* exit_code = -1, timed_out = false, the diagnostic message as stderr and an
\* empty stdout, and the loop still reaches every later file.
C8_LaunchFailureResult ==
  /\ \A j \in 1..Len(results) :
       outcome[j] = "launch_failed" =>
         /\ results[j][2].exit_code = FailCode
         /\ results[j][2].timed_out = FALSE
         /\ results[j][2].stderr = LaunchError
         /\ results[j][2].stdout = <<>>
  /\ (pc = "done" /\ config.execution_enabled) => Len(results) = Len(files)

\* C9: in either mode, when the engine's wait ended because the child
\* terminated on its own, the result's exit_code is the child's exit status
\* and timed_out is false.
C9_ExitCodeIsChilds ==
  \A j \in 1..Len(results) :
    outcome[j] = "exited" =>
      /\ results[j][2].exit_code = child[j].code
      /\ results[j][2].timed_out = FALSE

C9_Witness ==
  /\ config.interactive /\ Len(results) = 2
  /\ outcome[1] = "exited" /\ results[1][2].exit_code = 1
  /\ outcome[2] = "exited" /\ results[2][2].exit_code = 0

\* C10 (as claimed): in interactive mode, when the child exited on its own
\* and neither stream relay was ended by an I/O error, the result's stdout
\* holds every line the child wrote to stdout and its stderr every line the
\* child wrote to stderr.
C10_NoOutputLineMissing ==
  \A j \in 1..Len(results) :
    (config.interactive /\ outcome[j] = "exited"
       /\ tout[j] # "done" /\ terr[j] # "done") =>
      /\ WrittenOut(j) \subseteq Range(results[j][2].stdout)
      /\ WrittenErr(j) \subseteq Range(results[j][2].stderr)

\* C11 (as claimed): at most one Input Relay is reading the controlling
\* terminal at any time; no relay of an earlier file is still in, or on its
\* way back to, sys.stdin.readline once a later file's relay has been started.
C11_OneTerminalReader ==
  Cardinality({k \in FileIds : tin[k] \in {"poll", "read"}}) <= 1

\* C12 (as claimed): the Input Relay started for file k polls only file k's
\* child, writes only to file k's child's stdin and appends only to file k's
\* stdout transcript.
C12_RelayStaysWithItsFile ==
  [][\A k \in FileIds :
       /\ (tin[k] = "poll" /\ tin'[k] # "poll") => procRef = k
       /\ (tin[k] = "write" /\ tin'[k] # "write") => procRef = k
       /\ (tin[k] = "append" /\ tin'[k] # "append") => capOut = k]_vars

\* C13 (as claimed): at most one child process started by the engine is
\* alive at any moment.
C13_OneChildAlive ==
  Cardinality({k \in FileIds : child[k].st = "running"}) <= 1

\* C14: in interactive mode the engine eventually returns with one entry
\* per input file, even when the terminal never delivers a line or end of
\* input and the stream relays never finish.
C14_InteractiveBatchTerminates ==
  (config.interactive /\ config.execution_enabled) =>
    <>(pc = "done" /\ Len(results) = Len(files))

C14_Witness ==
  /\ pc = "done" /\ config.interactive /\ Len(results) = 2
  /\ tin[1] = "read" /\ tin[2] = "read" /\ ~termEOF /\ termNext = 1
  /\ ~OutFinished(2) /\ IsExecutionResult(results[1][2])
  /\ IsExecutionResult(results[2][2])

\* position of line l in text q, 0 when it is absent
Pos(l, q) == IF l \in Range(q) THEN CHOOSE n \in 1..Len(q) : q[n] = l ELSE 0

\* C15 (as claimed): in an interactive result's stdout every input line
\* forwarded to the child stands before every output line the child wrote
\* after that input line had reached it.
C15_InputBeforeItsOutput ==
  \A j \in 1..Len(results) :
    (config.interactive /\ IsExecutionResult(results[j][2])) =>
      \A m \in 1..Len(child[j].stdin) : \A n \in 1..child[j].nOut :
        LET out == results[j][2].stdout
            po == Pos(Line("str", "out", j, n), out)
            pin == Pos(child[j].stdin[m], out)
        IN (child[j].seen[n] >= m /\ po > 0) => (pin > 0 /\ pin < po)

IsOut(l) == l.src = "out"
\* the first m lines file k's child wrote to one stream, as text
FirstLines(src, k, m) == [n \in 1..m |-> Line("str", src, k, n)]
\* text q holds, between any relayed input lines, the first stdout lines of
\* file k's child in the order written
OutputInPipeOrder(q, k) ==
  LET o == SelectSeq(q, IsOut) IN o = FirstLines("out", k, Len(o))
\* text q is exactly the first stderr lines of file k's child
OnlyStderrInPipeOrder(q, k) == q = FirstLines("err", k, Len(q))

\* C16: in interactive mode the child's stdout lines stand in the stdout
\* transcript, and in the result's stdout, in the order the pipe delivered
\* them, whatever input lines are interleaved; the stderr transcript, and
\* the stderr of a result of a launched child, hold only the child's stderr
\* lines, in pipe order.
C16_TranscriptsInPipeOrder ==
  config.interactive =>
    /\ \A k \in FileIds :
         /\ OutputInPipeOrder(Join(bufOut[k]), k)
         /\ OnlyStderrInPipeOrder(Join(bufErr[k]), k)
    /\ \A j \in 1..Len(results) :
         (IsExecutionResult(results[j][2]) /\ outcome[j] # "launch_failed") =>
           /\ OutputInPipeOrder(results[j][2].stdout, j)
           /\ OnlyStderrInPipeOrder(results[j][2].stderr, j)

C16_Witness ==
  /\ config.interactive /\ Len(results) = 1
  /\ IsExecutionResult(results[1][2])
  /\ results[1][2].stdout = <<Line("str", "out", 1, 1), Line("str", "in", 0, 1),
                              Line("str", "out", 1, 2)>>

\* C17: an entry of the results list, once appended, is never changed or
\* removed, also when a relay of that file goes on appending to a transcript
\* list after the result was assembled.
C17_ResultsNeverChange ==
  [][/\ Len(results') >= Len(results)
     /\ \A j \in 1..Len(results) : results'[j] = results[j]]_vars

\* a reader has appended to file 1's list after file 1's result was built
C17_Witness ==
  /\ config.interactive /\ Len(results) >= 1
  /\ IsExecutionResult(results[1][2])
  /\ WrittenOut(1) # {}
  /\ WrittenOut(1) \subseteq Range(Join(bufOut[1]))
  /\ results[1][2].stdout = <<>>

\* C18: when a stream relay of the current file was ended by an I/O error,
\* the engine still assembles the file's result: its stdout and stderr are
\* the lines appended to the transcripts so far, stderr holds nothing but the
\* child's stderr lines, and a child that exited on its own keeps its exit
\* status, with timed_out false.
C18_RelayErrorIsBenign ==
  [][(/\ pc = "assemble" /\ pc' = "loop" /\ config.interactive
      /\ tout[i] = "done" \/ terr[i] = "done") =>
       LET r == results'[i][2] IN
         /\ Len(results') = i
         /\ r.stdout = Join(bufOut[i])
         /\ r.stderr = Join(bufErr[i])
         /\ Range(r.stderr) \subseteq WrittenErr(i)
         /\ outcome[i] = "exited" =>
              (r.exit_code = child[i].code /\ r.timed_out = FALSE)]_vars

\* t_out failed on the mirror write of the first of two lines; the result
\* holds that line and the child's exit status
C18_Witness ==
  /\ config.interactive /\ Len(results) = 1
  /\ IsExecutionResult(results[1][2])
  /\ tout[1] = "done" /\ child[1].nOut = 2 /\ Len(pipeOut[1]) = 1
  /\ outcome[1] = "exited"
  /\ results[1][2].stdout = <<Line("str", "out", 1, 1)>>
  /\ results[1][2].stderr = <<>>
  /\ results[1][2].exit_code = 1

\* every line that has reached the stdin of some child
Forwarded == UNION {Range(child[p].stdin) : p \in FileIds}
\* every line standing in some transcript list
Recorded ==
  UNION {Range(Join(bufOut[k])) \cup Range(Join(bufErr[k])) : k \in FileIds}

\* C19: a terminal line stands in a transcript only after it was written to
\* a child's stdin, and only in a stdout transcript; an Input Relay whose
\* write fails records nothing and stops, and so does one that reads end of
\* input.
C19_RecordOnlyForwarded ==
  /\ [](/\ \A l \in Recorded : l.src = "in" => l \in Forwarded
        /\ \A k \in FileIds :
             /\ \A l \in Range(Join(bufErr[k])) : l.src # "in"
             /\ tin[k] = "append" => inLine[k][1] \in Forwarded)
  /\ [][\A k \in FileIds :
          /\ (tin[k] = "write" /\ tin'[k] # "write" /\ child' = child) =>
               (tin'[k] = "done" /\ bufOut' = bufOut /\ bufErr' = bufErr)
          /\ (tin[k] = "read" /\ termEOF' /\ tin'[k] # "read" /\ termNext' = termNext) =>
               tin'[k] = "done"
          /\ tin[k] = "done" => tin'[k] = "done"]_vars

\* a relay read a line, its write failed, and it has stopped with the line
\* in no transcript
C19_Witness ==
  \E k \in FileIds :
    /\ tin[k] = "done" /\ inLine[k] # <<>>
    /\ inLine[k][1] \notin Forwarded
    /\ inLine[k][1] \notin Recorded
====
